---- MODULE Spec2Model ----
(***************************************************************************)
(* A model of crc.py: the bit reflectors, the table generator, the         *)
(* table-driven engine LUT_CRC, the bit-serial engine CRC and the chunk     *)
(* loop of main's standard-input mode.                                      *)
(*                                                                          *)
(* Python integers are unbounded, so an unsigned integer is modelled as the *)
(* set of its 1-bit positions: bit i of the number is set iff i is in the   *)
(* set.  Shifts, masks and XOR are then exact at every width (32 and up     *)
(* included).  Counters, indices and widths stay plain integers.            *)
(***************************************************************************)
EXTENDS Integers, Sequences, FiniteSets, TLC

\* ------------------------------------------------------------------------
\* Unbounded unsigned integers as sets of bit positions
\* ------------------------------------------------------------------------

RECURSIVE Pow2(_)
Pow2(n) == IF n = 0 THEN 1 ELSE 2 * Pow2(n - 1)

\* the integer literal n (0 <= n < 2^31) as a bit set
Bits(n) == {i \in 0..30 : (n \div Pow2(i)) % 2 = 1}

\* a bit set below 2^31 back to an integer (used for list indices)
RECURSIVE ToInt(_)
ToInt(s) == IF s = {} THEN 0
            ELSE LET i == CHOOSE k \in s : TRUE IN Pow2(i) + ToInt(s \ {i})

Zero == {}

Xor(a, b) == (a \ b) \cup (b \ a)

And(a, b) == a \cap b

Or(a, b) == a \cup b

Shl(a, n) == {i + n : i \in a}

Shr(a, n) == {i - n : i \in {k \in a : k >= n}}

\* (1 << w) - 1
LowMask(w) == 0..(w - 1)

\* a 32-bit literal given as its two 16-bit halves
Hex32(hi, lo) == Or(Shl(Bits(hi), 16), Bits(lo))

\* the failure LUT_CRC raises; no number has a bit at position -1
ValueError == {-1}

\* the literals of crc.py
One == Bits(1)

Mask_aa == Bits(170)

Mask_55 == Bits(85)

Mask_cc == Bits(204)

Mask_33 == Bits(51)

Mask_f0 == Bits(240)

Mask_0f == Bits(15)

Mask_ff == Bits(255)

\* 7 (print_LUT, line 130)
Mask_07 == Bits(7)

\* a byte of the data (0..255) as a number
ByteBits == [b \in 0..255 |-> Bits(b)]

\* ------------------------------------------------------------------------
\* reflect (crc.py 34-44) and reflect_u8 (crc.py 46-49)
\* ------------------------------------------------------------------------

\* mutant of reflect_loop: the padding shift of lines 41-42 is left out
RECURSIVE reflect_loop_nopad(_, _, _, _)
reflect_loop_nopad(x, rx, i, width) ==
    IF x # Zero /\ i < width
    THEN reflect_loop_nopad(Shr(x, 1), Or(Shl(rx, 1), And(x, One)), i + 1, width)
    ELSE rx

\* the while loop of reflect: one iteration per low bit of x
RECURSIVE reflect_loop(_, _, _, _)
reflect_loop(x, rx, i, width) ==
    IF x # Zero /\ i < width
    THEN reflect_loop(Shr(x, 1), Or(Shl(rx, 1), And(x, One)), i + 1, width)
    ELSE IF i < width THEN Shl(rx, width - i) ELSE rx

\* mutant of reflect: the loop runs while x, without the test i < width
RECURSIVE reflect_while_x(_, _)
reflect_while_x(x, width) ==
    IF x = Zero \/ x \subseteq LowMask(width)
    THEN reflect_loop(x, Zero, 0, width)
    ELSE reflect_while_x(x, width + 1)

reflect(x, width) == reflect_loop(x, Zero, 0, width)

\* mutant of reflect_u8: the pairs are shifted by 1 instead of 2
reflect_u8_shift1(x) ==
    LET x1 == Or(Shr(And(x, Mask_aa), 1), Shl(And(x, Mask_55), 1))
        x2 == Or(Shr(And(x1, Mask_cc), 1), Shl(And(x1, Mask_33), 1))
    IN  Or(Shr(And(x2, Mask_f0), 4), Shl(And(x2, Mask_0f), 4))

reflect_u8(x) ==
    LET x1 == Or(Shr(And(x, Mask_aa), 1), Shl(And(x, Mask_55), 1))
        x2 == Or(Shr(And(x1, Mask_cc), 2), Shl(And(x1, Mask_33), 2))
    IN  Or(Shr(And(x2, Mask_f0), 4), Shl(And(x2, Mask_0f), 4))

\* in_xform = reflect_u8 if reflect_in else identity
in_xform(reflect_in, byte) == IF reflect_in THEN reflect_u8(byte) ELSE byte

\* mutant of out_xform: reflect_out is ignored
out_xform_never(reflect_out, crc, width) == crc

\* the output reflected whatever reflect_out says
out_xform_always(reflect_out, crc, width) == reflect(crc, width)

\* out_xform = reflect if reflect_out else identity
out_xform(reflect_out, crc, width) ==
    IF reflect_out THEN reflect(crc, width) ELSE crc

\* ------------------------------------------------------------------------
\* gen_table (crc.py 14-32)
\* ------------------------------------------------------------------------

TableSize == 256

\* table = [0] * 256
ZeroTable == [k \in 0..(TableSize - 1) |-> Zero]

\* MSb_mask = 1 << (width - 1)
MSb_mask(width) == {width - 1}

\* the shift with the test made on the bit above the top bit
gen_shift_test_above(poly, width, crc) ==
    IF And(crc, {width}) # Zero
    THEN Xor(Shl(crc, 1), poly)
    ELSE Shl(crc, 1)

\* lines 21-25: shift crc left, XOR poly in when the old top bit was set
gen_shift(poly, width, crc) ==
    IF And(crc, MSb_mask(width)) # Zero
    THEN Xor(Shl(crc, 1), poly)
    ELSE Shl(crc, 1)

\* line 28 without LUT_mask
gen_fill_nomask(width, table, crc, i) ==
    [k \in 0..(TableSize - 1) |->
        IF k >= i /\ k < i + i
        THEN Xor(crc, table[k - i])
        ELSE table[k]]

\* mutant of gen_fill: table[j] is assigned instead of table[i + j]
gen_fill_no_offset(width, table, crc, i) ==
    [k \in 0..(TableSize - 1) |->
        IF k < i
        THEN And(LowMask(width), Xor(crc, table[k]))
        ELSE table[k]]

\* lines 27-28: table[i + j] = LUT_mask & (crc ^ table[j]) for j in range(i)
gen_fill(width, table, crc, i) ==
    [k \in 0..(TableSize - 1) |->
        IF k >= i /\ k < i + i
        THEN And(LowMask(width), Xor(crc, table[k - i]))
        ELSE table[k]]

\* the while loop, i = 1, 2, 4, ... while i < 256
RECURSIVE gen_loop(_, _, _, _, _)
gen_loop(poly, width, table, crc, i) ==
    IF i < TableSize
    THEN LET c == gen_shift(poly, width, crc)
         IN  gen_loop(poly, width, gen_fill(width, table, c, i), c, i + i)
    ELSE table

gen_table(poly, width) ==
    gen_loop(poly, width, ZeroTable, MSb_mask(width), 1)

\* ------------------------------------------------------------------------
\* LUT_CRC (crc.py 51-68)
\* ------------------------------------------------------------------------

\* mutant of lut_width_bad: width 8 is rejected too, as the message of
\* line 55 has it ("should be >8")
lut_width_bad_gt8(width) == width <= 8 \/ 0 # (width % 8)

\* line 54: the width test
lut_width_bad(width) == width < 8 \/ 0 # (width % 8)

\* line 65 without line 66: the accumulator is not masked
lut_step_nomask(T, width, crc, byte, reflect_in) ==
    LET idx == And(Xor(Shr(crc, width - 8),
                       in_xform(reflect_in, ByteBits[byte])), Mask_ff)
    IN  Xor(Shl(crc, 8), T[ToInt(idx)])

\* lines 65-66: one byte through the table
lut_step(T, width, crc, byte, reflect_in) ==
    LET idx == And(Xor(Shr(crc, width - 8),
                       in_xform(reflect_in, ByteBits[byte])), Mask_ff)
    IN  And(Xor(Shl(crc, 8), T[ToInt(idx)]), LowMask(width))

\* lines 64-66: for byte in data; st is the loop state: the accumulator crc
\* and the number k of bytes consumed
RECURSIVE lut_loop(_, _, _, _, _)
lut_loop(T, width, data, st, reflect_in) ==
    IF st.k >= Len(data) THEN st.crc
    ELSE lut_loop(T, width, data,
                  [crc |-> lut_step(T, width, st.crc, data[st.k + 1], reflect_in),
                   k |-> st.k + 1],
                  reflect_in)

\* mutant of LUT_CRC: the accumulator starts at 0 and xor_in is XORed in
\* after the loop
LUT_CRC_xor_in_last(poly, width, data, xor_in, xor_out, reflect_in, reflect_out) ==
    IF lut_width_bad(width) THEN ValueError
    ELSE LET table == gen_table(poly, width)
             acc   == Xor(lut_loop(table, width, data, [crc |-> Zero, k |-> 0],
                                   reflect_in), xor_in)
         IN  Xor(out_xform(reflect_out, acc, width), xor_out)

LUT_CRC(poly, width, data, xor_in, xor_out, reflect_in, reflect_out) ==
    IF lut_width_bad(width) THEN ValueError
    ELSE LET table == gen_table(poly, width)
             acc   == lut_loop(table, width, data, [crc |-> xor_in, k |-> 0],
                               reflect_in)
         IN  Xor(out_xform(reflect_out, acc, width), xor_out)

\* ------------------------------------------------------------------------
\* CRC (crc.py 70-103)
\* ------------------------------------------------------------------------

\* pop_mask = 1 << width
pop_mask(width) == {width}

\* mutant of crc_bit: xor_in is XORed in on every bit that is counted down
crc_bit_xor_every(poly, width, crc, btx, byte, bitmask, xor_in, reflect_in) ==
    LET b  == in_xform(reflect_in, ByteBits[byte])
        c1 == Shl(crc, 1)
        c2 == IF And(ByteBits[bitmask], b) # Zero THEN Or(c1, One) ELSE c1
        c3 == IF And(c2, pop_mask(width)) # Zero THEN Xor(c2, poly) ELSE c2
        hit == btx # 0
        c4 == IF hit THEN Xor(c3, xor_in) ELSE c3
    IN  [crc |-> And(c4, LowMask(width)),
         bits_til_xor_in |-> IF btx # 0 THEN btx - 1 ELSE btx,
         xored |-> hit]

\* lines 85-94: one input bit; bitmask is the current value of bit (0x80..1)
crc_bit(poly, width, crc, btx, byte, bitmask, xor_in, reflect_in) ==
    LET b  == in_xform(reflect_in, ByteBits[byte])
        c1 == Shl(crc, 1)
        c2 == IF And(ByteBits[bitmask], b) # Zero THEN Or(c1, One) ELSE c1
        c3 == IF And(c2, pop_mask(width)) # Zero THEN Xor(c2, poly) ELSE c2
        hit == btx # 0 /\ btx - 1 = 0
        c4 == IF hit THEN Xor(c3, xor_in) ELSE c3
    IN  [crc |-> And(c4, LowMask(width)),
         bits_til_xor_in |-> IF btx # 0 THEN btx - 1 ELSE btx,
         xored |-> hit]

\* an augmentation that shifts a 1 in, as an input bit would
crc_aug_shift_one(poly, width, crc) ==
    LET c1 == Or(Shl(crc, 1), One)
        c2 == IF And(c1, pop_mask(width)) # Zero THEN Xor(c1, poly) ELSE c1
    IN  And(c2, LowMask(width))

\* an augmentation that shifts the register and never reduces it
crc_aug_no_reduce(poly, width, crc) ==
    And(Shl(crc, 1), LowMask(width))

\* lines 98-101: one augmentation bit
crc_aug(poly, width, crc) ==
    LET c1 == Shl(crc, 1)
        c2 == IF And(c1, pop_mask(width)) # Zero THEN Xor(c1, poly) ELSE c1
    IN  And(c2, LowMask(width))

\* lines 81-95: the loops over the bytes and their bits; st is the loop
\* state: crc, bits_til_xor_in and the number n of bits consumed
RECURSIVE crc_input(_, _, _, _, _, _)
crc_input(poly, width, data, st, xor_in, reflect_in) ==
    IF st.n >= 8 * Len(data) THEN st.crc
    ELSE LET r == crc_bit(poly, width, st.crc, st.bits_til_xor_in,
                          data[(st.n \div 8) + 1], Pow2(7 - (st.n % 8)),
                          xor_in, reflect_in)
         IN  crc_input(poly, width, data,
                       [crc |-> r.crc, bits_til_xor_in |-> r.bits_til_xor_in,
                        n |-> st.n + 1],
                       xor_in, reflect_in)

\* lines 97-101: for _ in range(width); st is crc and the rounds left
RECURSIVE crc_flush(_, _, _)
crc_flush(poly, width, st) ==
    IF st.left = 0 THEN st.crc
    ELSE crc_flush(poly, width,
                   [crc |-> crc_aug(poly, width, st.crc), left |-> st.left - 1])

CRC(poly, width, data, xor_in, xor_out, reflect_in, reflect_out) ==
    LET fed     == crc_input(poly, width, data,
                             [crc |-> Zero, bits_til_xor_in |-> width, n |-> 0],
                             xor_in, reflect_in)
        flushed == crc_flush(poly, width, [crc |-> fed, left |-> width])
    IN  Xor(out_xform(reflect_out, flushed, width), xor_out)

\* ------------------------------------------------------------------------
\* print_LUT (crc.py 105-133) and the text written to standard output
\* ------------------------------------------------------------------------

\* the biggest stdint size (line 106)
MaxStdint == 64

\* the position of the highest 1 bit of x # 0 (x.bit_length() - 1)
top_bit(x) == CHOOSE m \in x : \A n \in x : n <= m

\* x.bit_length()
bit_length(x) == IF x = Zero THEN 0 ELSE top_bit(x) + 1

\* the number of digits '{:x}' writes for x
RECURSIVE hex_len(_)
hex_len(x) == IF Shr(x, 4) = Zero THEN 1 ELSE 1 + hex_len(Shr(x, 4))

\* the hex digit of x that is worth 16^e
hex_digit(x, e) ==
    (IF 4 * e     \in x THEN 1 ELSE 0) + (IF 4 * e + 1 \in x THEN 2 ELSE 0)
  + (IF 4 * e + 2 \in x THEN 4 ELSE 0) + (IF 4 * e + 3 \in x THEN 8 ELSE 0)

\* the hex digits without the zero padding
hex_format_nopad(x, n) ==
    LET nd == hex_len(x)
    IN  [j \in 1..nd |-> hex_digit(x, nd - j)]

\* '{:0<n>x}'.format(x): the hex digits of x, most significant first, padded
\* with zeros on the left to n digits, more digits if x needs them
hex_format(x, n) ==
    LET nd == IF hex_len(x) > n THEN hex_len(x) ELSE n
    IN  [j \in 1..nd |-> hex_digit(x, nd - j)]

\* line 106: if width > 64
pl_width_bad_ge(width) == width >= MaxStdint

pl_width_bad(width) == width > MaxStdint

\* lines 109-117, with uint<n>_t as n; the thresholds one too low
stdint_type_lt8(width) ==
    IF width < 8 THEN 8
    ELSE IF width < 16 THEN 16
    ELSE IF width < 32 THEN 32
    ELSE 64

stdint_type(width) ==
    IF width < 9 THEN 8
    ELSE IF width < 17 THEN 16
    ELSE IF width < 33 THEN 32
    ELSE 64

\* lines 119-121: q, r = divmod(width, 4); q + (1 if r else 0)
hex_width(width) == (width \div 4) + (IF width % 4 # 0 THEN 1 ELSE 0)

\* line 123: fmt.format(x), the digits after the 0x
fmt(hw, x) == hex_format(x, hw)

\* line 15, reached from line 125: 1 << (width - 1) raises ValueError
\* (negative shift count) when width - 1 < 0
gen_shift_bad(width) == width - 1 < 0

\* line 125: gen_table's result as the Python list it is
table_list(poly, width) ==
    LET generated == gen_table(poly, width)
    IN  [j \in 1..TableSize |-> generated[j - 1]]

\* line 127: the declaration; len is len(T)
print_decl(stdint, width, poly, len) ==
    [kind |-> "decl", stdint |-> stdint, width |-> width,
     poly |-> fmt(hex_width(width), poly), len |-> len]

\* line 128: indent and the first literal, no line end
print_first(hw, x) == [kind |-> "first", lit |-> fmt(hw, x)]

\* line 131: a line end and indent
print_newline == [kind |-> "newline"]

\* line 132: a comma and the next literal
print_next(hw, x) == [kind |-> "next", lit |-> fmt(hw, x)]

\* line 133: a line end and the closing brace
print_close == [kind |-> "close"]

\* line 130: 0 == (i & 7), for i below 256
breaks_line(i) == And(ByteBits[i], Mask_07) = Zero

\* lines 130-132: what one pass of the loop writes
print_entry(hw, i, x) ==
    (IF breaks_line(i) THEN <<print_newline>> ELSE <<>>)
        \o <<print_next(hw, x)>>

\* lines 129-132 from the pass st.i up to the pass before the loop breaks
\* the line again, or to the end of the list; st.out is what was written
RECURSIVE print_line(_, _, _)
print_line(hw, T_list, st) ==
    LET written == st.out \o print_entry(hw, st.i, T_list[st.i])
    IN  IF st.i = Len(T_list) \/ breaks_line(st.i + 1)
        THEN [i |-> st.i + 1, out |-> written]
        ELSE print_line(hw, T_list, [i |-> st.i + 1, out |-> written])

\* line 187: the version line
print_version == [kind |-> "version"]

\* line 243: print(f'{crc:x}')
print_crc(v) == [kind |-> "crc", lit |-> hex_format(v, 0)]

\* ------------------------------------------------------------------------
\* main (crc.py 135-243): the command line
\* ------------------------------------------------------------------------

\* an option that was not given (argparse's None); a given one is <<value>>
None == <<>>

Some(v) == <<v>>

\* line 193: any_int, for the options that are counts of bits or bytes
any_int(x) == IF x = None THEN 0 ELSE x[1]

\* line 193: any_int, for the options that are numbers of unbounded size
any_num(x) == IF x = None THEN Zero ELSE x[1]

\* Koopman's notation with the width taken after the shift
koopman_late_width(p) ==
    [W |-> bit_length(Or(Shl(p, 1), One)),
     P |-> Xor(Or(Shl(p, 1), One), {bit_length(Or(Shl(p, 1), One))})]

\* lines 198-201: W = P.bit_length(); P <<= 1; P |= 1; P ^= 1 << W
koopman(p) ==
    [W |-> bit_length(p), P |-> Xor(Or(Shl(p, 1), One), {bit_length(p)})]

\* --lut honoured only when no data option is given
lut_mode_no_data(a) == a.lut /\ a.input = None /\ a.hex = None /\ a.str = None

\* line 208: if args.lut
lut_mode(a) == a.lut

\* the if chain with --hex tested first
data_source_hex_first(a) ==
    IF a.hex # None THEN "hex"
    ELSE IF a.input # None THEN "input"
    ELSE IF a.str # None THEN "str"
    ELSE "stdin"

\* lines 214, 228, 231, 234: the if chain that picks the data
data_source(a) ==
    IF a.input # None THEN "input"
    ELSE IF a.hex # None THEN "hex"
    ELSE IF a.str # None THEN "str"
    ELSE "stdin"


\* lines 220-221: if skip < 0: skip = max(0, len(mm) + skip)
resolve_skip(s, L) ==
    IF s < 0 THEN (IF 0 > L + s THEN 0 ELSE L + s) ELSE s

\* a count <= 0 taken from the length with the wrong sign
resolve_count_minus(c, L) == IF c <= 0 THEN L - c ELSE c

\* lines 222-223: if count <= 0: count = len(mm) + count
resolve_count(c, L) == IF c <= 0 THEN L + c ELSE c

\* lines 224-225: the calculated count is not positive
count_bad(c, L) == c <= 0 /\ L + c <= 0

\* line 226: mm[a : b] for 0 <= a <= b, both clipped to the length
py_slice(s, a, b) ==
    LET lo == IF a > Len(s) THEN Len(s) ELSE a
        hi == IF b > Len(s) THEN Len(s) ELSE b
    IN  [j \in 1..(hi - lo) |-> s[lo + j]]

\* line 219: mmap(inf.fileno(), 0) raises ValueError for an empty file
mmap_bad(f) == Len(f) = 0

\* ------------------------------------------------------------------------
\* State
\* ------------------------------------------------------------------------

VARIABLES
    fn,               \* the engine being called: "LUT_CRC" or "CRC"
    poly, width, data, xor_in, xor_out, reflect_in, reflect_out,  \* its arguments
    pc,               \* position in the call
    T,                \* LUT_CRC's table (NoTable before line 57 has run)
    crc,              \* the accumulator
    k,                \* bytes of data consumed so far
    bit,              \* CRC's bit mask within the current byte (0x80 .. 1)
    bits_til_xor_in,  \* CRC's countdown to the XOR-in
    left,             \* CRC's augmentation rounds still to run
    ret,              \* the returned value, or ValueError
    nbits,            \* history: passes of CRC's while loop (input bits) so far
    naug,             \* history: passes of CRC's augmentation loop so far
    xor_ins           \* history: the value of nbits at each execution of
                      \* line 93 (crc ^= xor_in)

engineVars == <<fn, poly, width, data, xor_in, xor_out, reflect_in, reflect_out,
                pc, T, crc, k, bit, bits_til_xor_in, left, ret, nbits,
                naug, xor_ins>>

VARIABLES
    rf_x, rf_width,   \* reflect's arguments (rf_x is also reflect_u8's)
    rf_pc,            \* "call", then "once", "twice" or "u8"
    rf_rx,            \* reflect(rf_x, rf_width)
    rf_rrx,           \* reflect(rf_rx, rf_width)
    rf_u8             \* reflect_u8(rf_x)

reflectVars == <<rf_x, rf_width, rf_pc, rf_rx, rf_rrx, rf_u8>>

VARIABLES
    P, W, xi, xo, ri, ro,  \* the caller's CRC parameters (main's locals)
    chunks,           \* the chunks still to come
    consumed,         \* history: the bytes of the chunks already processed
    sizes,            \* history: the lengths of the chunks already processed
    main_crc,         \* the carried accumulator (main's crc)
    main_pc,          \* "loop", then "done"
    printed           \* the final value

callerVars == <<P, W, xi, xo, ri, ro, chunks, consumed, sizes, main_crc,
                main_pc, printed>>

VARIABLES
    gt_poly, gt_width,  \* gen_table's arguments
    gt_pc,            \* "call", "loop", then "done"
    gt_table,         \* table
    gt_crc,           \* crc
    gt_i,             \* i
    gt_writes         \* history: how often each index of table was assigned

genVars == <<gt_poly, gt_width, gt_pc, gt_table, gt_crc, gt_i, gt_writes>>

VARIABLES
    pl_poly, pl_width,  \* print_LUT's arguments
    pl_pc,            \* position in print_LUT
    pl_stdint,        \* stdint_type, as its number of bits (8 for uint8_t)
    pl_hex_width,     \* hex_width
    pl_T,             \* T, a list (NoTable before line 125 has run)
    pl_i              \* i of the loop at lines 129-132

lutVars == <<pl_poly, pl_width, pl_pc, pl_stdint, pl_hex_width, pl_T, pl_i>>

VARIABLES
    args,             \* the parsed command line
    mm,               \* the bytes of the file --input names
    skip, count,      \* main's skip and count
    status,           \* how the process has ended, "" while it has not
    stdout,           \* history: what each print call wrote
    opened,           \* history: the data sources read
    calls             \* history: the engine calls made, [fn, data]

mainVars == <<args, mm, skip, count, status, stdout, opened, calls>>

vars == <<engineVars, reflectVars, callerVars, genVars, lutVars, mainVars>>

\* ------------------------------------------------------------------------
\* Inputs
\* ------------------------------------------------------------------------

\* longest data of the enumerated calls, in bytes
MaxLen == 2

Bytes == {49, 166}

RECURSIVE SeqsUpTo(_, _)
SeqsUpTo(S, n) ==
    IF n = 0 THEN {<<>>}
    ELSE LET shorter == SeqsUpTo(S, n - 1)
         IN  shorter \cup {Append(q, e) : q \in {r \in shorter : Len(r) = n - 1}, e \in S}

Datas == SeqsUpTo(Bytes, MaxLen)

\* 1, 0x131 (CRC-8/MAXIM with its x^8 term), 0x1021 (CRC-16/CCITT)
Polys == {Bits(1), Bits(305), Bits(4129)}

\* widths given to CRC (any width >= 1)
CrcWidths == {1, 3, 8, 12, 16}

\* widths given to LUT_CRC, the ones it rejects included
LutWidths == {-8, 0, 4, 7, 8, 12, 16, 20}

\* 0 and 0x1005b (bits inside and above every width used)
XorIns == {Zero, Bits(65627)}

XorOuts == {Zero, Bits(165)}

NoTable == <<>>

\* "123456789"
CheckData == <<49, 50, 51, 52, 53, 54, 55, 56, 57>>

\* the CRC-32 parameters: poly 0x04C11DB7, xor_in = xor_out = 0xFFFFFFFF
Crc32Poly == Hex32(1217, 7607)

Ones32 == Hex32(65535, 65535)

\* a call about to start: the arguments are bound, nothing has run
Call(f, p, w, d, x_in, x_out, r_in, r_out) ==
    /\ fn = f /\ poly = p /\ width = w /\ data = d
    /\ xor_in = x_in /\ xor_out = x_out /\ reflect_in = r_in /\ reflect_out = r_out
    /\ pc = "call" /\ T = NoTable /\ crc = Zero /\ k = 0 /\ bit = 0
    /\ bits_til_xor_in = 0 /\ left = 0 /\ ret = Zero
    /\ nbits = 0 /\ naug = 0 /\ xor_ins = <<>>

\* calls with arguments drawn from the small sets
SmallCalls ==
    \E f \in {"LUT_CRC", "CRC"}, p \in Polys, d \in Datas,
       x_in \in XorIns, x_out \in XorOuts, r_in \in BOOLEAN, r_out \in BOOLEAN :
        \E w \in (IF f = "CRC" THEN CrcWidths ELSE LutWidths) :
            Call(f, p, w, d, x_in, x_out, r_in, r_out)

\* the CRC-32 check vector, on either engine
CheckCalls ==
    \E f \in {"LUT_CRC", "CRC"} :
        Call(f, Crc32Poly, 32, CheckData, Ones32, Ones32, TRUE, TRUE)

\* no engine call in progress
NoCall ==
    /\ fn = "" /\ poly = Zero /\ width = 0 /\ data = <<>>
    /\ xor_in = Zero /\ xor_out = Zero /\ reflect_in = FALSE /\ reflect_out = FALSE
    /\ pc = "idle" /\ T = NoTable /\ crc = Zero /\ k = 0 /\ bit = 0
    /\ bits_til_xor_in = 0 /\ left = 0 /\ ret = Zero
    /\ nbits = 0 /\ naug = 0 /\ xor_ins = <<>>

\* no reflect call in progress
NoReflect ==
    /\ rf_x = Zero /\ rf_width = 0 /\ rf_pc = "idle"
    /\ rf_rx = Zero /\ rf_rrx = Zero /\ rf_u8 = Zero

\* no chunk loop in progress
NoCaller ==
    /\ P = Zero /\ W = 0 /\ xi = Zero /\ xo = Zero /\ ri = FALSE /\ ro = FALSE
    /\ chunks = <<>> /\ consumed = <<>> /\ sizes = <<>> /\ main_crc = Zero
    /\ main_pc = "idle" /\ printed = Zero

\* no gen_table call in progress
NoGen ==
    /\ gt_poly = Zero /\ gt_width = 0 /\ gt_pc = "idle" /\ gt_table = NoTable
    /\ gt_crc = Zero /\ gt_i = 0 /\ gt_writes = NoTable

\* no print_LUT call in progress
NoLut ==
    /\ pl_poly = Zero /\ pl_width = 0 /\ pl_pc = "idle" /\ pl_stdint = 0
    /\ pl_hex_width = 0 /\ pl_T = NoTable /\ pl_i = 0

\* no command line; nothing written, read or called
NoMain ==
    /\ args = <<>> /\ mm = <<>> /\ skip = 0 /\ count = 0 /\ status = ""
    /\ stdout = <<>> /\ opened = {} /\ calls = <<>>

Init == (SmallCalls \/ CheckCalls) /\ NoReflect /\ NoCaller /\ NoGen /\ NoLut /\ NoMain

\* ------------------------------------------------------------------------
\* LUT_CRC, step by step
\* ------------------------------------------------------------------------

\* lines 54-55: raise ValueError
LUT_Raise ==
    /\ pc = "call" /\ fn = "LUT_CRC"
    /\ lut_width_bad(width)
    /\ pc' = "raised"
    /\ ret' = ValueError
    /\ UNCHANGED <<fn, poly, width, data, xor_in, xor_out, reflect_in,
                   reflect_out, T, crc, k, bit, bits_til_xor_in, left,
                   nbits, naug, xor_ins>>
    /\ UNCHANGED <<reflectVars, callerVars, genVars>>
    /\ UNCHANGED <<lutVars, mainVars>>

\* lines 56-63: build the table, seed the accumulator with xor_in
LUT_Setup ==
    /\ pc = "call" /\ fn = "LUT_CRC"
    /\ ~lut_width_bad(width)
    /\ T' = gen_table(poly, width)
    /\ crc' = xor_in
    /\ pc' = "loop"
    /\ UNCHANGED <<fn, poly, width, data, xor_in, xor_out, reflect_in,
                   reflect_out, k, bit, bits_til_xor_in, left, ret,
                   nbits, naug, xor_ins>>
    /\ UNCHANGED <<reflectVars, callerVars, genVars>>
    /\ UNCHANGED <<lutVars, mainVars>>

\* lines 64-66: one byte
LUT_Byte ==
    /\ pc = "loop" /\ fn = "LUT_CRC"
    /\ k < Len(data)
    /\ crc' = lut_step(T, width, crc, data[k + 1], reflect_in)
    /\ k' = k + 1
    /\ UNCHANGED <<fn, poly, width, data, xor_in, xor_out, reflect_in,
                   reflect_out, pc, T, bit, bits_til_xor_in, left, ret,
                   nbits, naug, xor_ins>>
    /\ UNCHANGED <<reflectVars, callerVars, genVars>>
    /\ UNCHANGED <<lutVars, mainVars>>

\* line 68
LUT_Return ==
    /\ pc = "loop" /\ fn = "LUT_CRC"
    /\ k = Len(data)
    /\ ret' = Xor(out_xform(reflect_out, crc, width), xor_out)
    /\ pc' = "done"
    /\ UNCHANGED <<fn, poly, width, data, xor_in, xor_out, reflect_in,
                   reflect_out, T, crc, k, bit, bits_til_xor_in, left,
                   nbits, naug, xor_ins>>
    /\ UNCHANGED <<reflectVars, callerVars, genVars>>
    /\ UNCHANGED <<lutVars, mainVars>>

\* ------------------------------------------------------------------------
\* CRC, step by step
\* ------------------------------------------------------------------------

\* lines 73-80 (and the first byte's bit = 0x80); with no data the input
\* loop is skipped and the augmentation loop starts
CRC_Setup ==
    /\ pc = "call" /\ fn = "CRC"
    /\ bits_til_xor_in' = width
    /\ crc' = Zero
    /\ bit' = 128
    /\ left' = width
    /\ pc' = IF Len(data) = 0 THEN "aug" ELSE "loop"
    /\ UNCHANGED <<fn, poly, width, data, xor_in, xor_out, reflect_in,
                   reflect_out, T, k, ret, nbits, naug, xor_ins>>
    /\ UNCHANGED <<reflectVars, callerVars, genVars>>
    /\ UNCHANGED <<lutVars, mainVars>>

\* lines 82-95: one pass of the while loop; after bit 1 the next byte
\* starts, after the last byte the augmentation loop starts
CRC_Bit ==
    /\ pc = "loop" /\ fn = "CRC"
    /\ k < Len(data)
    /\ LET r == crc_bit(poly, width, crc, bits_til_xor_in, data[k + 1], bit,
                        xor_in, reflect_in)
       IN  /\ crc' = r.crc
           /\ bits_til_xor_in' = r.bits_til_xor_in
           /\ xor_ins' = IF r.xored THEN Append(xor_ins, nbits + 1) ELSE xor_ins
    /\ nbits' = nbits + 1
    /\ bit' = IF bit = 1 THEN 128 ELSE bit \div 2
    /\ k' = IF bit = 1 THEN k + 1 ELSE k
    /\ pc' = IF bit = 1 /\ k + 1 = Len(data) THEN "aug" ELSE "loop"
    /\ UNCHANGED <<fn, poly, width, data, xor_in, xor_out, reflect_in,
                   reflect_out, T, left, ret, naug>>
    /\ UNCHANGED <<reflectVars, callerVars, genVars>>
    /\ UNCHANGED <<lutVars, mainVars>>

\* an augmentation loop that runs range(width + 1)
CRC_Aug_one_more ==
    /\ pc = "aug" /\ fn = "CRC"
    /\ left >= 0
    /\ crc' = crc_aug(poly, width, crc)
    /\ left' = left - 1
    /\ naug' = naug + 1
    /\ UNCHANGED <<fn, poly, width, data, xor_in, xor_out, reflect_in,
                   reflect_out, pc, T, k, bit, bits_til_xor_in, ret, nbits,
                   xor_ins>>
    /\ UNCHANGED <<reflectVars, callerVars, genVars>>
    /\ UNCHANGED <<lutVars, mainVars>>

\* lines 97-101: one augmentation bit
CRC_Aug ==
    /\ pc = "aug" /\ fn = "CRC"
    /\ left > 0
    /\ crc' = crc_aug(poly, width, crc)
    /\ left' = left - 1
    /\ naug' = naug + 1
    /\ UNCHANGED <<fn, poly, width, data, xor_in, xor_out, reflect_in,
                   reflect_out, pc, T, k, bit, bits_til_xor_in, ret, nbits,
                   xor_ins>>
    /\ UNCHANGED <<reflectVars, callerVars, genVars>>
    /\ UNCHANGED <<lutVars, mainVars>>

\* line 103
CRC_Return ==
    /\ pc = "aug" /\ fn = "CRC"
    /\ left = 0
    /\ ret' = Xor(out_xform(reflect_out, crc, width), xor_out)
    /\ pc' = "done"
    /\ UNCHANGED <<fn, poly, width, data, xor_in, xor_out, reflect_in,
                   reflect_out, T, crc, k, bit, bits_til_xor_in, left, nbits,
                   naug, xor_ins>>
    /\ UNCHANGED <<reflectVars, callerVars, genVars>>
    /\ UNCHANGED <<lutVars, mainVars>>

Next ==
    \/ LUT_Raise
    \/ LUT_Setup
    \/ LUT_Byte
    \/ LUT_Return
    \/ CRC_Setup
    \/ CRC_Bit
    \/ CRC_Aug
    \/ CRC_Return

Spec == Init /\ [][Next]_vars

\* ------------------------------------------------------------------------
\* reflect and reflect_u8 applied to enumerated arguments
\* ------------------------------------------------------------------------

\* reflect's x ranges over every number of at most XBits bits
XBits == 8

\* reflect's width ranges over 0..MaxReflectWidth
MaxReflectWidth == 9

ReflectInit ==
    /\ rf_x \in SUBSET (0..(XBits - 1))
    /\ rf_width \in 0..MaxReflectWidth
    /\ rf_pc = "call"
    /\ rf_rx = Zero /\ rf_rrx = Zero /\ rf_u8 = Zero
    /\ NoCall /\ NoCaller /\ NoGen /\ NoLut /\ NoMain

\* rx = reflect(x, width)
Reflect ==
    /\ rf_pc = "call"
    /\ rf_rx' = reflect(rf_x, rf_width)
    /\ rf_pc' = "once"
    /\ UNCHANGED <<rf_x, rf_width, rf_rrx, rf_u8, engineVars, callerVars, genVars>>
    /\ UNCHANGED <<lutVars, mainVars>>

\* reflect(rx, width), the result reflected again
ReflectAgain ==
    /\ rf_pc = "once"
    /\ rf_rrx' = reflect(rf_rx, rf_width)
    /\ rf_pc' = "twice"
    /\ UNCHANGED <<rf_x, rf_width, rf_rx, rf_u8, engineVars, callerVars, genVars>>
    /\ UNCHANGED <<lutVars, mainVars>>

\* reflect_u8(x), for a byte x
ReflectU8 ==
    /\ rf_pc = "call"
    /\ rf_x \subseteq 0..7
    /\ rf_u8' = reflect_u8(rf_x)
    /\ rf_pc' = "u8"
    /\ UNCHANGED <<rf_x, rf_width, rf_rx, rf_rrx, engineVars, callerVars, genVars>>
    /\ UNCHANGED <<lutVars, mainVars>>

ReflectNext ==
    \/ Reflect
    \/ ReflectAgain
    \/ ReflectU8

SpecReflect == ReflectInit /\ [][ReflectNext]_vars

\* ------------------------------------------------------------------------
\* Chunked computation: main's standard-input loop (crc.py 212, 234-243)
\* and a caller resuming LUT_CRC across chunks
\* ------------------------------------------------------------------------

\* the table-driven engine for every width from 8 up
select_fn_ge8(w) == IF w >= 8 THEN "LUT_CRC" ELSE "CRC"

\* line 212: fn = LUT_CRC if W >= 8 and 0 == (W % 8) else CRC
select_fn(w) == IF w >= 8 /\ 0 = (w % 8) THEN "LUT_CRC" ELSE "CRC"

\* fn(poly, width, data, xor_in, xor_out, reflect_in, reflect_out)
call_fn(f, p, w, d, x_in, x_out, r_in, r_out) ==
    IF f = "LUT_CRC" THEN LUT_CRC(p, w, d, x_in, x_out, r_in, r_out)
    ELSE CRC(p, w, d, x_in, x_out, r_in, r_out)

\* line 241: (reflect(crc, W) if ro else crc) ^ xo
finalize(acc, w, r_out, x_out) ==
    Xor(IF r_out THEN reflect(acc, w) ELSE acc, x_out)

\* every way of cutting d into exactly n consecutive chunks, empty ones allowed
RECURSIVE CutsInto(_, _)
CutsInto(d, n) ==
    IF n = 1 THEN {<<d>>}
    ELSE UNION {{<<SubSeq(d, 1, i)>> \o rest :
                    rest \in CutsInto(SubSeq(d, i + 1, Len(d)), n - 1)} :
                i \in 0..Len(d)}

\* a cut with no empty chunk
NonEmptyChunks(c) == \A i \in 1..Len(c) : Len(c[i]) > 0

RECURSIVE Concat(_)
Concat(c) == IF c = <<>> THEN <<>> ELSE Head(c) \o Concat(Tail(c))

\* most chunks a resumed computation is cut into
MaxChunks == 2

\* widths main is run with on standard input
MainWidths == {1, 3, 8, 12, 16}

Caller(p, w, x_in, x_out, r_in, r_out, c) ==
    /\ P = p /\ W = w /\ xi = x_in /\ xo = x_out /\ ri = r_in /\ ro = r_out
    /\ chunks = c /\ consumed = <<>> /\ sizes = <<>>
    /\ main_crc = x_in        \* line 238: crc = xi
    /\ main_pc = "loop" /\ printed = Zero

\* standard input arrives as non-empty chunks (read returns b'' only at the
\* end, which stops the loop); empty input is no chunk at all
StdinInit ==
    /\ \E p \in Polys, w \in MainWidths, x_in \in XorIns, x_out \in XorOuts,
          r_in \in BOOLEAN, r_out \in BOOLEAN, d \in Datas :
        \E c \in {<<>>} \cup UNION {CutsInto(d, n) : n \in 1..MaxLen} :
            /\ NonEmptyChunks(c)
            /\ Concat(c) = d
            /\ Caller(p, w, x_in, x_out, r_in, r_out, c)
    /\ NoCall /\ NoReflect /\ NoGen /\ NoLut /\ NoMain

\* lines 239-240: crc = fn(P, W, chunk, crc, reflect_in = ri)
Main_ReadChunk ==
    /\ main_pc = "loop"
    /\ chunks # <<>>
    /\ main_crc' = call_fn(select_fn(W), P, W, Head(chunks), main_crc, Zero,
                           ri, FALSE)
    /\ consumed' = consumed \o Head(chunks)
    /\ sizes' = Append(sizes, Len(Head(chunks)))
    /\ chunks' = Tail(chunks)
    /\ opened' = opened \cup {"stdin"}
    /\ calls' = Append(calls, [fn |-> select_fn(W), data |-> Head(chunks)])
    /\ UNCHANGED <<P, W, xi, xo, ri, ro, main_pc, printed, engineVars,
                   reflectVars, genVars, lutVars>>
    /\ UNCHANGED <<args, mm, skip, count, status, stdout>>

\* lines 241-243: read returned b''; finalize and print
Main_Finish ==
    /\ main_pc = "loop"
    /\ chunks = <<>>
    /\ printed' = finalize(main_crc, W, ro, xo)
    /\ main_pc' = "done"
    /\ stdout' = Append(stdout, print_crc(finalize(main_crc, W, ro, xo)))
    /\ status' = "exit 0"
    /\ opened' = opened \cup {"stdin"}
    /\ UNCHANGED <<P, W, xi, xo, ri, ro, chunks, consumed, main_crc,
                   sizes, engineVars, reflectVars, genVars, lutVars>>
    /\ UNCHANGED <<args, mm, skip, count, calls>>

StdinNext ==
    \/ Main_ReadChunk
    \/ Main_Finish

SpecStdin == StdinInit /\ [][StdinNext]_vars

\* a caller of LUT_CRC with its input cut into chunks, empty ones allowed;
\* the last vector is CRC-8 (poly 0x07) over "1234" then "56789"
ResumeInit ==
    /\ \/ \E p \in Polys, w \in {8, 16}, x_in \in XorIns, x_out \in XorOuts,
             r_in \in BOOLEAN, r_out \in BOOLEAN, d \in Datas :
            \E c \in UNION {CutsInto(d, n) : n \in 1..MaxChunks} :
                Caller(p, w, x_in, x_out, r_in, r_out, c)
       \/ \E c \in CutsInto(CheckData, 2) :
            Caller(Bits(7), 8, Zero, Zero, FALSE, FALSE, c)
    /\ NoCall /\ NoReflect /\ NoGen /\ NoLut /\ NoMain

\* LUT_CRC on the next chunk: xor_in is the value the previous call
\* returned, xor_out = 0, reflect_out = False
Resume_Chunk ==
    /\ main_pc = "loop"
    /\ chunks # <<>>
    /\ main_crc' = LUT_CRC(P, W, Head(chunks), main_crc, Zero, ri, FALSE)
    /\ consumed' = consumed \o Head(chunks)
    /\ sizes' = Append(sizes, Len(Head(chunks)))
    /\ chunks' = Tail(chunks)
    /\ UNCHANGED <<P, W, xi, xo, ri, ro, main_pc, printed, engineVars,
                   reflectVars, genVars>>
    /\ UNCHANGED <<lutVars, mainVars>>

\* after the last chunk: output reflection and xor_out, once
Resume_Finish ==
    /\ main_pc = "loop"
    /\ chunks = <<>>
    /\ printed' = finalize(main_crc, W, ro, xo)
    /\ main_pc' = "done"
    /\ UNCHANGED <<P, W, xi, xo, ri, ro, chunks, consumed, main_crc,
                   sizes, engineVars, reflectVars, genVars>>
    /\ UNCHANGED <<lutVars, mainVars>>

ResumeNext ==
    \/ Resume_Chunk
    \/ Resume_Finish

SpecResume == ResumeInit /\ [][ResumeNext]_vars

\* ------------------------------------------------------------------------
\* gen_table, round by round (crc.py 14-32)
\* ------------------------------------------------------------------------

\* gen_table's width ranges over 1..MaxGenWidth
MaxGenWidth == 16

GenInit ==
    /\ gt_poly \in Polys
    /\ gt_width \in 1..MaxGenWidth
    /\ gt_pc = "call" /\ gt_table = NoTable /\ gt_crc = Zero /\ gt_i = 0
    /\ gt_writes = NoTable
    /\ NoCall /\ NoReflect /\ NoCaller /\ NoLut /\ NoMain

\* lines 15-19
Gen_Setup ==
    /\ gt_pc = "call"
    /\ gt_table' = ZeroTable
    /\ gt_crc' = MSb_mask(gt_width)
    /\ gt_i' = 1
    /\ gt_writes' = [j \in 0..(TableSize - 1) |-> 0]
    /\ gt_pc' = "loop"
    /\ UNCHANGED <<gt_poly, gt_width, engineVars, reflectVars, callerVars>>
    /\ UNCHANGED <<lutVars, mainVars>>

\* lines 20-30: one pass of the while loop
Gen_Round ==
    /\ gt_pc = "loop"
    /\ gt_i < TableSize
    /\ gt_crc' = gen_shift(gt_poly, gt_width, gt_crc)
    /\ gt_table' = gen_fill(gt_width, gt_table, gt_crc', gt_i)
    /\ gt_writes' = [j \in 0..(TableSize - 1) |->
                        IF j >= gt_i /\ j < gt_i + gt_i
                        THEN gt_writes[j] + 1 ELSE gt_writes[j]]
    /\ gt_i' = gt_i + gt_i
    /\ UNCHANGED <<gt_poly, gt_width, gt_pc, engineVars, reflectVars, callerVars>>
    /\ UNCHANGED <<lutVars, mainVars>>

\* line 32
Gen_Return ==
    /\ gt_pc = "loop"
    /\ ~(gt_i < TableSize)
    /\ gt_pc' = "done"
    /\ UNCHANGED <<gt_poly, gt_width, gt_table, gt_crc, gt_i, gt_writes,
                   engineVars, reflectVars, callerVars>>
    /\ UNCHANGED <<lutVars, mainVars>>

GenNext ==
    \/ Gen_Setup
    \/ Gen_Round
    \/ Gen_Return

SpecTable == GenInit /\ [][GenNext]_vars

\* ------------------------------------------------------------------------
\* print_LUT, step by step (crc.py 105-133)
\* ------------------------------------------------------------------------

\* CRC-64/ECMA-182's polynomial, 0x42F0E1EBA9EA3693
Crc64Poly == Or(Shl(Hex32(17136, 57835), 32), Hex32(43498, 13971))

\* polynomials print_LUT is called with
LutPolys == {Bits(305), Crc64Poly}

\* widths around the stdint sizes besides the sizes themselves
PrintMargin == 2

\* widths print_LUT is called with
PrintWidths == (0 - PrintMargin)..(MaxStdint + PrintMargin)

PrintCall(p, w) ==
    /\ pl_poly = p /\ pl_width = w /\ pl_pc = "call" /\ pl_stdint = 0
    /\ pl_hex_width = 0 /\ pl_T = NoTable /\ pl_i = 0

LutInit ==
    /\ \E p \in LutPolys, w \in PrintWidths : PrintCall(p, w)
    /\ NoCall /\ NoReflect /\ NoCaller /\ NoGen /\ NoMain

\* lines 106-107: raise ValueError
PL_Raise ==
    /\ pl_pc = "call"
    /\ pl_width_bad(pl_width)
    /\ pl_pc' = "raised"
    /\ UNCHANGED <<pl_poly, pl_width, pl_stdint, pl_hex_width, pl_T, pl_i>>
    /\ UNCHANGED <<engineVars, reflectVars, callerVars, genVars, mainVars>>

\* lines 109-123: the element type and the digits per literal
PL_Setup ==
    /\ pl_pc = "call"
    /\ ~pl_width_bad(pl_width)
    /\ pl_stdint' = stdint_type(pl_width)
    /\ pl_hex_width' = hex_width(pl_width)
    /\ pl_pc' = "table"
    /\ UNCHANGED <<pl_poly, pl_width, pl_T, pl_i>>
    /\ UNCHANGED <<engineVars, reflectVars, callerVars, genVars, mainVars>>

\* line 125, gen_table raising ValueError at its line 15: the exception
\* leaves print_LUT
PL_TableRaise ==
    /\ pl_pc = "table"
    /\ gen_shift_bad(pl_width)
    /\ pl_pc' = "raised"
    /\ UNCHANGED <<pl_poly, pl_width, pl_stdint, pl_hex_width, pl_T, pl_i>>
    /\ UNCHANGED <<engineVars, reflectVars, callerVars, genVars, mainVars>>

\* line 125: T = gen_table(poly, width)
PL_Table ==
    /\ pl_pc = "table"
    /\ ~gen_shift_bad(pl_width)
    /\ pl_T' = table_list(pl_poly, pl_width)
    /\ pl_pc' = "decl"
    /\ UNCHANGED <<pl_poly, pl_width, pl_stdint, pl_hex_width, pl_i>>
    /\ UNCHANGED <<engineVars, reflectVars, callerVars, genVars, mainVars>>

\* line 127: the declaration, with len(T)
PL_Decl ==
    /\ pl_pc = "decl"
    /\ stdout' = Append(stdout,
                        print_decl(pl_stdint, pl_width, pl_poly, Len(pl_T)))
    /\ pl_pc' = "first"
    /\ UNCHANGED <<pl_poly, pl_width, pl_stdint, pl_hex_width, pl_T, pl_i>>
    /\ UNCHANGED <<args, mm, skip, count, status, opened, calls>>
    /\ UNCHANGED <<engineVars, reflectVars, callerVars, genVars>>

\* line 128: T.pop(0) is written; the loop starts at i = 1
PL_First ==
    /\ pl_pc = "first"
    /\ stdout' = Append(stdout, print_first(pl_hex_width, Head(pl_T)))
    /\ pl_T' = Tail(pl_T)
    /\ pl_i' = 1
    /\ pl_pc' = "loop"
    /\ UNCHANGED <<pl_poly, pl_width, pl_stdint, pl_hex_width>>
    /\ UNCHANGED <<args, mm, skip, count, status, opened, calls>>
    /\ UNCHANGED <<engineVars, reflectVars, callerVars, genVars>>

\* lines 129-132: the passes that write one line of the initializer
PL_Line ==
    /\ pl_pc = "loop"
    /\ pl_i <= Len(pl_T)
    /\ stdout' = print_line(pl_hex_width, pl_T, [i |-> pl_i, out |-> stdout]).out
    /\ pl_i' = print_line(pl_hex_width, pl_T, [i |-> pl_i, out |-> stdout]).i
    /\ UNCHANGED <<pl_poly, pl_width, pl_pc, pl_stdint, pl_hex_width, pl_T>>
    /\ UNCHANGED <<args, mm, skip, count, status, opened, calls>>
    /\ UNCHANGED <<engineVars, reflectVars, callerVars, genVars>>

\* print_LUT ending the process itself after the closing brace
PL_Close_exit ==
    /\ pl_pc = "loop"
    /\ pl_i > Len(pl_T)
    /\ stdout' = Append(stdout, print_close)
    /\ status' = "exit 0"
    /\ pl_pc' = "done"
    /\ UNCHANGED <<pl_poly, pl_width, pl_stdint, pl_hex_width, pl_T, pl_i>>
    /\ UNCHANGED <<args, mm, skip, count, opened, calls>>
    /\ UNCHANGED <<engineVars, reflectVars, callerVars, genVars>>

\* line 133: the closing brace; print_LUT returns
PL_Close ==
    /\ pl_pc = "loop"
    /\ pl_i > Len(pl_T)
    /\ stdout' = Append(stdout, print_close)
    /\ pl_pc' = "done"
    /\ UNCHANGED <<pl_poly, pl_width, pl_stdint, pl_hex_width, pl_T, pl_i>>
    /\ UNCHANGED <<args, mm, skip, count, status, opened, calls>>
    /\ UNCHANGED <<engineVars, reflectVars, callerVars, genVars>>

LutNext ==
    \/ PL_Raise
    \/ PL_Setup
    \/ PL_TableRaise
    \/ PL_Table
    \/ PL_Decl
    \/ PL_First
    \/ PL_Line
    \/ PL_Close

SpecLut == LutInit /\ [][LutNext]_vars

\* ------------------------------------------------------------------------
\* main, step by step (crc.py 184-243)
\* ------------------------------------------------------------------------

\* the command line after parse_args: every option of lines 157-182
MkArgs(version, p, w, x_in, x_out, r_in, r_out, lut, input, s, c, hex, str) ==
    [version |-> version, poly |-> p, width |-> w, xor_in |-> x_in,
     xor_out |-> x_out, reflect_input |-> r_in, reflect_output |-> r_out,
     lut |-> lut, input |-> input, skip |-> s, count |-> c, hex |-> hex,
     str |-> str]

\* longest input file, in bytes
MaxFile == 3

\* the data of each source, all different
FileData == [j \in 1..MaxFile |-> IF j % 2 = 1 THEN 49 ELSE 166]

HexData == <<49>>

StrData == <<166>>

StdinData == <<<<166, 49>>>>

\* largest polynomial given in Koopman's notation without a width
MaxKoopman == 40

\* every combination of mode and data options, with and without a width
ModeArgs ==
    {MkArgs(v, p, w, None, None, FALSE, FALSE, l, i, None, None, h, s) :
        v \in BOOLEAN, p \in {None, Some(Bits(7)), Some(Bits(305))},
        w \in {None, Some(0), Some(8), Some(12), Some(MaxStdint + 1)},
        l \in BOOLEAN, i \in {None, Some("file")},
        h \in {None, Some(HexData)}, s \in {None, Some(StrData)}}

\* every skip and count around a file's length
FileArgs ==
    {MkArgs(FALSE, Some(Bits(7)), Some(8), None, None, FALSE, FALSE, FALSE,
            Some("file"), s, c, None, None) :
        s \in {None} \cup {Some(n) : n \in (0 - MaxFile - 1)..(MaxFile + 1)},
        c \in {None} \cup {Some(n) : n \in (0 - MaxFile - 1)..(MaxFile + 1)}}

\* polynomials in Koopman's notation, 0x8810 (CRC-16/CCITT) among them
KoopmanArgs ==
    {MkArgs(FALSE, Some(p), None, x_in, None, FALSE, r_out, FALSE, None,
            None, None, Some(HexData), None) :
        p \in {Bits(n) : n \in 0..MaxKoopman} \cup {Bits(34832)},
        x_in \in {None, Some(Bits(5))}, r_out \in BOOLEAN}

\* main is entered: nothing computed, written or read yet
MainStart(a, f, c) ==
    /\ args = a /\ mm = f /\ chunks = c
    /\ P = Zero /\ W = 0 /\ xi = Zero /\ xo = Zero /\ ri = FALSE /\ ro = FALSE
    /\ consumed = <<>> /\ sizes = <<>> /\ main_crc = Zero
    /\ main_pc = "start" /\ printed = Zero
    /\ skip = 0 /\ count = 0 /\ status = ""
    /\ stdout = <<>> /\ opened = {} /\ calls = <<>>

MainInit ==
    /\ \/ \E a \in ModeArgs, c \in {<<>>, StdinData} :
            MainStart(a, IF a.input = None THEN <<>> ELSE FileData, c)
       \/ \E a \in FileArgs, n \in 0..MaxFile :
            MainStart(a, SubSeq(FileData, 1, n), StdinData)
       \/ \E a \in KoopmanArgs : MainStart(a, <<>>, StdinData)
    /\ NoCall /\ NoReflect /\ NoGen /\ NoLut

\* lines 186-188: print the version, sys.exit(0)
Main_Version ==
    /\ main_pc = "start"
    /\ args.version
    /\ stdout' = Append(stdout, print_version)
    /\ status' = "exit 0"
    /\ main_pc' = "done"
    /\ UNCHANGED <<P, W, xi, xo, ri, ro, chunks, consumed, sizes, main_crc,
                   printed>>
    /\ UNCHANGED <<args, mm, skip, count, opened, calls>>
    /\ UNCHANGED <<engineVars, reflectVars, genVars, lutVars>>

\* lines 190-191: no polynomial, raise SystemExit
Main_NoPoly ==
    /\ main_pc = "start"
    /\ ~args.version
    /\ args.poly = None
    /\ status' = "SystemExit"
    /\ main_pc' = "done"
    /\ UNCHANGED <<P, W, xi, xo, ri, ro, chunks, consumed, sizes, main_crc,
                   printed>>
    /\ UNCHANGED <<args, mm, skip, count, stdout, opened, calls>>
    /\ UNCHANGED <<engineVars, reflectVars, genVars, lutVars>>

\* lines 193-206: the CRC parameters
Main_Params ==
    /\ main_pc = "start"
    /\ ~args.version
    /\ args.poly # None
    /\ IF args.width = None
       THEN /\ W' = koopman(any_num(args.poly)).W
            /\ P' = koopman(any_num(args.poly)).P
       ELSE /\ W' = any_int(args.width)
            /\ P' = any_num(args.poly)
    /\ xi' = any_num(args.xor_in)
    /\ xo' = any_num(args.xor_out)
    /\ ri' = args.reflect_input
    /\ ro' = args.reflect_output
    /\ main_pc' = "params"
    /\ UNCHANGED <<chunks, consumed, sizes, main_crc, printed>>
    /\ UNCHANGED <<engineVars, reflectVars, genVars, lutVars, mainVars>>

\* lines 208-209: print_LUT(P, W) is called
Main_Lut ==
    /\ main_pc = "params"
    /\ lut_mode(args)
    /\ pl_poly' = P /\ pl_width' = W /\ pl_pc' = "call"
    /\ UNCHANGED <<pl_stdint, pl_hex_width, pl_T, pl_i>>
    /\ main_pc' = "print_LUT"
    /\ UNCHANGED <<P, W, xi, xo, ri, ro, chunks, consumed, sizes, main_crc,
                   printed>>
    /\ UNCHANGED <<engineVars, reflectVars, genVars, mainVars>>

\* line 209: print_LUT raised ValueError; nothing catches it
Main_LutRaised ==
    /\ main_pc = "print_LUT"
    /\ pl_pc = "raised"
    /\ status' = "ValueError"
    /\ main_pc' = "done"
    /\ UNCHANGED <<P, W, xi, xo, ri, ro, chunks, consumed, sizes, main_crc,
                   printed>>
    /\ UNCHANGED <<args, mm, skip, count, stdout, opened, calls>>
    /\ UNCHANGED <<engineVars, reflectVars, genVars, lutVars>>

\* line 210: print_LUT returned; sys.exit(0)
Main_LutExit ==
    /\ main_pc = "print_LUT"
    /\ pl_pc = "done"
    /\ status' = "exit 0"
    /\ main_pc' = "done"
    /\ UNCHANGED <<P, W, xi, xo, ri, ro, chunks, consumed, sizes, main_crc,
                   printed>>
    /\ UNCHANGED <<args, mm, skip, count, stdout, opened, calls>>
    /\ UNCHANGED <<engineVars, reflectVars, genVars, lutVars>>

\* lines 214-219: the input file is opened and mapped; mapping an empty
\* file raises ValueError, which nothing catches
Main_FileEmpty ==
    /\ main_pc = "params"
    /\ ~lut_mode(args)
    /\ data_source(args) = "input"
    /\ mmap_bad(mm)
    /\ skip' = any_int(args.skip)
    /\ count' = any_int(args.count)
    /\ opened' = opened \cup {"input"}
    /\ status' = "ValueError"
    /\ main_pc' = "done"
    /\ UNCHANGED <<P, W, xi, xo, ri, ro, chunks, consumed, sizes, main_crc,
                   printed>>
    /\ UNCHANGED <<args, mm, stdout, calls>>
    /\ UNCHANGED <<engineVars, reflectVars, genVars, lutVars>>

\* lines 214-225: the calculated count is not positive, raise SystemExit
Main_FileCount ==
    /\ main_pc = "params"
    /\ ~lut_mode(args)
    /\ data_source(args) = "input"
    /\ ~mmap_bad(mm)
    /\ count_bad(any_int(args.count), Len(mm))
    /\ skip' = resolve_skip(any_int(args.skip), Len(mm))
    /\ count' = resolve_count(any_int(args.count), Len(mm))
    /\ opened' = opened \cup {"input"}
    /\ status' = "SystemExit"
    /\ main_pc' = "done"
    /\ UNCHANGED <<P, W, xi, xo, ri, ro, chunks, consumed, sizes, main_crc,
                   printed>>
    /\ UNCHANGED <<args, mm, stdout, calls>>
    /\ UNCHANGED <<engineVars, reflectVars, genVars, lutVars>>

\* lines 212 and 243 around one call of the engine on all the data
Main_Compute(source, d) ==
    /\ main_crc' = call_fn(select_fn(W), P, W, d, xi, xo, ri, ro)
    /\ printed' = call_fn(select_fn(W), P, W, d, xi, xo, ri, ro)
    /\ stdout' = Append(stdout,
                        print_crc(call_fn(select_fn(W), P, W, d, xi, xo, ri, ro)))
    /\ calls' = Append(calls, [fn |-> select_fn(W), data |-> d])
    /\ opened' = opened \cup {source}
    /\ status' = "exit 0"
    /\ main_pc' = "done"
    /\ UNCHANGED <<P, W, xi, xo, ri, ro, chunks, consumed, sizes>>
    /\ UNCHANGED <<args, mm>>
    /\ UNCHANGED <<engineVars, reflectVars, genVars, lutVars>>

\* lines 214-227, 243: the CRC of mm[skip : skip + count]
Main_File ==
    /\ main_pc = "params"
    /\ ~lut_mode(args)
    /\ data_source(args) = "input"
    /\ ~mmap_bad(mm)
    /\ ~count_bad(any_int(args.count), Len(mm))
    /\ skip' = resolve_skip(any_int(args.skip), Len(mm))
    /\ count' = resolve_count(any_int(args.count), Len(mm))
    /\ Main_Compute("input", py_slice(mm, skip', skip' + count'))

\* lines 228-230, 243: the CRC of unhexlify(args.hex)
Main_Hex ==
    /\ main_pc = "params"
    /\ ~lut_mode(args)
    /\ data_source(args) = "hex"
    /\ Main_Compute("hex", args.hex[1])
    /\ UNCHANGED <<skip, count>>

\* lines 231-233, 243: the CRC of args.str encoded
Main_Str ==
    /\ main_pc = "params"
    /\ ~lut_mode(args)
    /\ data_source(args) = "str"
    /\ Main_Compute("str", args.str[1])
    /\ UNCHANGED <<skip, count>>

\* lines 234-238: standard input; crc = xi
Main_Stdin ==
    /\ main_pc = "params"
    /\ ~lut_mode(args)
    /\ data_source(args) = "stdin"
    /\ main_crc' = xi
    /\ main_pc' = "loop"
    /\ UNCHANGED <<P, W, xi, xo, ri, ro, chunks, consumed, sizes, printed>>
    /\ UNCHANGED <<engineVars, reflectVars, genVars, lutVars, mainVars>>

MainNext ==
    \/ Main_Version
    \/ Main_NoPoly
    \/ Main_Params
    \/ Main_Lut
    \/ PL_Raise
    \/ PL_Setup
    \/ PL_TableRaise
    \/ PL_Table
    \/ PL_Decl
    \/ PL_First
    \/ PL_Line
    \/ PL_Close
    \/ Main_LutRaised
    \/ Main_LutExit
    \/ Main_FileEmpty
    \/ Main_FileCount
    \/ Main_File
    \/ Main_Hex
    \/ Main_Str
    \/ Main_Stdin
    \/ Main_ReadChunk
    \/ Main_Finish

SpecMain == MainInit /\ [][MainNext]_vars

\* ------------------------------------------------------------------------
\* The whole module: a call of any function of crc.py, or a run of main
\* ------------------------------------------------------------------------

AllInit ==
    \/ Init
    \/ ReflectInit
    \/ GenInit
    \/ LutInit
    \/ StdinInit
    \/ MainInit

AllNext ==
    \/ Next
    \/ ReflectNext
    \/ GenNext
    \/ MainNext

SpecAll == AllInit /\ [][AllNext]_vars

\* ------------------------------------------------------------------------
\* Properties
\* ------------------------------------------------------------------------

\* the other engine's answer for the arguments of the call in progress
OtherEngine ==
    IF fn = "CRC"
    THEN LUT_CRC(poly, width, data, xor_in, xor_out, reflect_in, reflect_out)
    ELSE CRC(poly, width, data, xor_in, xor_out, reflect_in, reflect_out)

\* C1: for every polynomial, every width >= 8 that is a multiple of 8 and
\* every non-empty data (data of fewer than width/8 bytes included), the
\* value an engine returns is the value the other engine returns for the
\* same arguments.
C1_EnginesAgree ==
    (pc = "done" /\ width >= 8 /\ width % 8 = 0 /\ Len(data) > 0)
        => ret = OtherEngine

\* C2: LUT_CRC resumed over the chunks of any cut of the input (empty chunks
\* allowed), each call seeded with the previous call's result, with
\* xor_out = 0 and reflect_out = False, followed by one output reflection and
\* one XOR with xor_out, gives what one LUT_CRC call gives over the whole
\* input; the carried value is at every point the raw accumulator of the
\* bytes consumed so far.  CRC-8 over "1234" then "56789" is among the cuts.
C2_ResumeMatchesWhole ==
    /\ main_pc \in {"loop", "done"}
        => main_crc = LUT_CRC(P, W, consumed, xi, Zero, ri, FALSE)
    /\ main_pc = "done"
        => printed = LUT_CRC(P, W, consumed, xi, xo, ri, ro)

\* C2 witness: CRC-8 (poly 0x07) over "1234" then "56789" has finished
\* with 0xf4
C2_Witness ==
    /\ main_pc = "done" /\ sizes = <<4, 5>> /\ consumed = CheckData
    /\ P = Bits(7) /\ W = 8
    /\ printed = Bits(244)

\* C3: in standard-input mode, for every width >= 1 and every delivery of a
\* non-empty input as non-empty chunks, the printed value is what the
\* selected engine returns for the whole input in one call.
C3_StdinMatchesWhole ==
    (main_pc = "done" /\ consumed # <<>>)
        => printed = call_fn(select_fn(W), P, W, consumed, xi, xo, ri, ro)

\* C4: in CRC (width >= 1) line 93 runs only immediately after the width-th
\* input bit; it has run exactly once when the input is over if the input
\* has at least width bits and never if it has fewer, nothing is added
\* during augmentation, and with fewer than width bits the result is the
\* result for xor_in = 0.
C4_XorInOnce ==
    (fn = "CRC" /\ width >= 1) =>
        /\ \A j \in 1..Len(xor_ins) : xor_ins[j] = width
        /\ pc \in {"aug", "done"}
            => Len(xor_ins) = (IF 8 * Len(data) >= width THEN 1 ELSE 0)
        /\ pc \in {"call", "loop"} => Len(xor_ins) = (IF nbits >= width THEN 1 ELSE 0)
        /\ (pc = "done" /\ 8 * Len(data) < width)
            => ret = CRC(poly, width, data, Zero, xor_out, reflect_in, reflect_out)

\* C4 witness: a finished CRC call with a non-zero xor_in applied once,
\* after bit number width of a longer input
C4_Witness ==
    /\ fn = "CRC" /\ pc = "done" /\ width = 12 /\ Len(data) = 2
    /\ And(xor_in, LowMask(width)) # Zero
    /\ xor_ins = <<12>> /\ naug = 12

C6_ReflectInvolution ==
    (rf_pc = "twice" /\ rf_x \subseteq LowMask(rf_width)) => rf_rrx = rf_x

\* C6 witness: a value that is not its own mirror image, reflected twice
C6_Witness ==
    /\ rf_pc = "twice" /\ rf_x \subseteq LowMask(rf_width)
    /\ rf_x # Zero /\ rf_rx # rf_x

\* C7: for every x in 0..255, reflect_u8(x) = reflect(x, 8), and the result
\* is in 0..255.
C7_ReflectU8 ==
    rf_pc = "u8" => (rf_u8 = reflect(rf_x, 8) /\ rf_u8 \subseteq LowMask(8))

\* C7 witness: reflect_u8(0x31) = 0x8c
C7_Witness ==
    rf_pc = "u8" /\ rf_x = Bits(49) /\ rf_u8 = Bits(140)

\* C8: for every width w >= 1 and every x >= 0 (x of more than w bits
\* included), bit i of reflect(x, w) is bit w-1-i of x for 0 <= i < w and the
\* bits at w and above are 0; reflect(0, w) = 0.
C8_ReflectReversesLowBits ==
    (rf_pc \in {"once", "twice"} /\ rf_width >= 1) =>
        /\ rf_rx = {rf_width - 1 - j : j \in rf_x \cap LowMask(rf_width)}
        /\ rf_x = Zero => rf_rx = Zero

\* C8 witness: x has bits at and above position w as well as below it
C8_Witness ==
    /\ rf_pc = "once" /\ rf_width >= 1
    /\ rf_x \cap LowMask(rf_width) # Zero
    /\ rf_x \ LowMask(rf_width) # Zero
    /\ rf_rx # Zero

\* C9: for every polynomial and every width >= 1, entry 0 of the table
\* gen_table builds is 0 (at every point of the construction and in the
\* table returned).
C9_TableZeroFirst ==
    (gt_pc \in {"loop", "done"} /\ gt_width >= 1) => gt_table[0] = Zero

\* C9 witness: a finished table whose other entries are not all 0
C9_Witness ==
    gt_pc = "done" /\ gt_table[0] = Zero /\ gt_table[1] # Zero /\ gt_i = 256

\* the CRC-32 check vector is the call in progress
Crc32Call ==
    /\ poly = Crc32Poly /\ width = 32 /\ data = CheckData
    /\ xor_in = Ones32 /\ xor_out = Ones32 /\ reflect_in /\ reflect_out

\* C10: CRC-32 (poly 0x04C11DB7, xor_in = xor_out = 0xFFFFFFFF, both
\* reflections) over "123456789" is 0xCBF43926, from LUT_CRC and from CRC.
C10_Crc32Check ==
    (pc = "done" /\ Crc32Call) => ret = Hex32(52212, 14630)

\* C10 witness: LUT_CRC, the engine width 32 selects, has returned
C10_Witness ==
    pc = "done" /\ Crc32Call /\ fn = select_fn(width) /\ fn = "LUT_CRC" /\ k = 9

\* the number of 1 bits in a byte sequence
RECURSIVE OneBits(_)
OneBits(d) ==
    IF d = <<>> THEN 0 ELSE Cardinality(ByteBits[Head(d)]) + OneBits(Tail(d))

\* the call in progress is the bit-serial parity configuration
ParityCall ==
    /\ fn = "CRC" /\ width = 1 /\ poly = One
    /\ xor_in = Zero /\ xor_out = Zero /\ ~reflect_in /\ ~reflect_out

\* C11: CRC with width = 1, polynomial = 1, xor_in = 0, xor_out = 0 and no
\* reflection returns the parity of the input: 1 if the input has an odd
\* number of 1 bits, else 0 (0 for the empty input).
C11_Parity ==
    (pc = "done" /\ ParityCall)
        => ret = (IF OneBits(data) % 2 = 1 THEN One ELSE Zero)

\* C11 witness: an input with an odd number of 1 bits has returned 1
C11_Witness ==
    /\ pc = "done" /\ ParityCall
    /\ Len(data) = 2 /\ OneBits(data) % 2 = 1 /\ ret = One /\ naug = 1

\* C12: polynomial, xor_in and xor_out are implicitly masked to width bits:
\* for both engines and every input, the empty one included, the value
\* returned equals the value returned with each of the three replaced by
\* its value mod 2^width.
C12_ParamsMasked ==
    pc = "done"
        => ret = call_fn(fn, And(poly, LowMask(width)), width, data,
                         And(xor_in, LowMask(width)),
                         And(xor_out, LowMask(width)),
                         reflect_in, reflect_out)

\* C13: print_LUT raises ValueError exactly when width > 64, and when it
\* does, nothing has been written and no table has been generated.
C13_RaisesIffAbove64 ==
    /\ pl_pc = "raised"
        => (pl_width > 64 /\ stdout = <<>> /\ pl_T = NoTable)
    /\ pl_width > 64 => pl_pc \in {"call", "raised"}

\* C13 as the code has it: print_LUT raises ValueError exactly when
\* width > 64 or width < 1, and when it does, nothing has been written and
\* no table has been generated; for width > 64 the failure is print_LUT's
\* first step, for width < 1 it comes from gen_table (line 15).
C13_RaisesIffNotIn1To64 ==
    /\ pl_pc = "raised"
        => /\ pl_width > 64 \/ pl_width < 1
           /\ stdout = <<>> /\ pl_T = NoTable
    /\ pl_width > 64 => pl_pc \in {"call", "raised"}
    /\ pl_width < 1 => pl_pc \in {"call", "table", "raised"}
    /\ pl_pc \in {"decl", "first", "loop", "done"}
        => (1 <= pl_width /\ pl_width <= 64 /\ pl_T # NoTable)

\* C13 witness: the failure at width 65
C13_Witness ==
    pl_pc = "raised" /\ pl_width = 65 /\ pl_stdint = 0 /\ stdout = <<>>

\* the stdint sizes
StdintSizes == {8, 16, 32, 64}

\* C14: for every width in 1..64 the element type is the smallest of
\* uint8_t, uint16_t, uint32_t, uint64_t with at least width bits, and it
\* is the type the declaration is written with.
C14_SmallestStdint ==
    (pl_pc \notin {"idle", "call", "raised"} /\ 1 <= pl_width /\ pl_width <= 64)
        => /\ pl_stdint \in StdintSizes
           /\ pl_stdint >= pl_width
           /\ \A n \in StdintSizes : n >= pl_width => pl_stdint <= n
           /\ stdout # <<>> => stdout[1].stdint = pl_stdint

\* C14 witness: width 17 is declared uint32_t
C14_Witness ==
    /\ pl_pc = "done" /\ pl_width = 17 /\ pl_stdint = 32
    /\ stdout[1].kind = "decl" /\ stdout[1].stdint = 32

\* the number a sequence of hex digits denotes
hex_value(d) ==
    UNION {{4 * (Len(d) - j) + b : b \in ByteBits[d[j]]} : j \in 1..Len(d)}

\* the positions in the output at which a literal was written
LiteralAt == {n \in 1..Len(stdout) : stdout[n].kind \in {"first", "next"}}

\* a literal of the initializer
IsLiteral(item) == item.kind \in {"first", "next"}

\* the literals written, in order
Literals ==
    LET items == SelectSeq(stdout, IsLiteral)
    IN  [j \in 1..Len(items) |-> items[j].lit]

\* for each position in the output, the line breaks written up to it
LineOf ==
    [n \in 1..Len(stdout) |->
        Cardinality({m \in 1..n : stdout[m].kind = "newline"})]

\* C15: for every polynomial and every width in 1..64 the initializer
\* written has exactly 256 hex literals, the entries gen_table(poly, width)
\* [0..255] in index order, each of exactly ceil(width / 4) hex digits,
\* 8 to a line on 32 lines, and the declared length is 256, the length of
\* the table before its first entry is removed.
C15_Initializer ==
    pl_pc = "done" =>
        LET entries == gen_table(pl_poly, pl_width)
            lits    == Literals
            lines   == LineOf
        IN  /\ 1 <= pl_width /\ pl_width <= 64
            /\ Len(lits) = 256
            /\ \A j \in 1..256 :
                /\ hex_value(lits[j]) = entries[j - 1]
                /\ Len(lits[j]) = (pl_width + 3) \div 4
            /\ \A r \in 0..31 :
                Cardinality({n \in LiteralAt : lines[n] = r}) = 8
            /\ \A n \in LiteralAt : lines[n] \in 0..31
            /\ stdout[1].kind = "decl" /\ stdout[1].len = 256
            /\ stdout[Len(stdout)].kind = "close"
            /\ Len(pl_T) = 255

\* C15 witness: a finished table of width 13 (4 digits per literal) with
\* 256 literals, 31 line breaks, the declaration and the closing line
C15_Witness ==
    /\ pl_pc = "done" /\ pl_width = 13 /\ pl_hex_width = 4
    /\ Len(stdout) = 289
    /\ stdout[3].kind = "next" /\ hex_value(stdout[3].lit) # Zero

\* main has derived its parameters from a polynomial given without a width
KoopmanRun ==
    /\ main_pc # "start" /\ ~args.version
    /\ args.poly # None /\ args.width = None

\* C16: given a polynomial p >= 1 and no width, main uses W = bit_length(p)
\* and P = ((p << 1) | 1) XOR (1 << W); then 0 < P < 2^W and P is odd: P is
\* p shifted left by one with the +1 term added and the x^W term removed.
C16_Koopman ==
    (KoopmanRun /\ args.poly[1] # Zero) =>
        LET p == args.poly[1]
        IN  /\ W >= 1 /\ (W - 1) \in p /\ p \subseteq LowMask(W)
            /\ P = Xor(Or(Shl(p, 1), One), {W})
            /\ P # Zero /\ P \subseteq LowMask(W) /\ 0 \in P
            /\ P = ({i + 1 : i \in p} \cup {0}) \ {W}

\* C16 witness: 0x8810 without a width is CRC-16/CCITT, 0x1021 of width 16
C16_Witness ==
    /\ KoopmanRun /\ main_pc = "done" /\ args.poly = Some(Bits(34832))
    /\ W = 16 /\ P = Bits(4129) /\ status = "exit 0"

\* a run that is to compute a CRC
CrcRun == ~args.version /\ args.poly # None /\ ~args.lut

\* the bytes given to the engines, in order
FedBytes == Concat([j \in 1..Len(calls) |-> calls[j].data])

\* C17: when several data sources are given, exactly one is used for the
\* CRC, chosen by the precedence --input > --hex > --str > stdin: a source
\* is read only if every option of higher precedence is absent, stdin only
\* when none of --input, --hex, --str is given.
C17_OneSourceByPrecedence ==
    /\ Cardinality(opened) <= 1
    /\ "input" \in opened => args.input # None
    /\ "hex" \in opened => (args.input = None /\ args.hex # None)
    /\ "str" \in opened
        => (args.input = None /\ args.hex = None /\ args.str # None)
    /\ "stdin" \in opened
        => (args.input = None /\ args.hex = None /\ args.str = None)
    /\ "stdin" \notin opened => consumed = <<>>
    /\ (main_pc = "done" /\ CrcRun) =>
        /\ Cardinality(opened) = 1
        /\ (status = "exit 0" /\ opened = {"input"})
            => FedBytes = py_slice(mm, skip, skip + count)
        /\ (status = "exit 0" /\ opened = {"hex"}) => FedBytes = args.hex[1]
        /\ (status = "exit 0" /\ opened = {"str"}) => FedBytes = args.str[1]
        /\ (status = "exit 0" /\ opened = {"stdin"})
            => (FedBytes = consumed /\ chunks = <<>>)

\* C17 witness: all four sources hold data and the file is the one used
C17_Witness ==
    /\ main_pc = "done" /\ CrcRun /\ status = "exit 0"
    /\ args.input # None /\ args.hex # None /\ args.str # None
    /\ chunks # <<>>
    /\ opened = {"input"} /\ FedBytes = FileData

\* --lut with a polynomial
LutRun == args.lut /\ args.poly # None

\* the whole table source is on standard output
TablePrinted ==
    /\ stdout # <<>>
    /\ stdout[1].kind = "decl"
    /\ stdout[Len(stdout)].kind = "close"
    /\ Len(SelectSeq(stdout, IsLiteral)) = 256

\* C18: with --lut and a polynomial the CLI prints the table source and
\* exits with status 0, without invoking an engine and without reading any
\* data source, whatever data options are present.
C18_LutPrintsAndExits0 ==
    LutRun =>
        /\ calls = <<>> /\ opened = {} /\ consumed = <<>>
        /\ main_pc = "done" => (status = "exit 0" /\ TablePrinted)

\* C18 as the code has it: with --lut and a polynomial, without --version
\* and with a width W in 1..64, the CLI has printed the table source and
\* exited with status 0 when it ends; with a width outside 1..64 print_LUT
\* raises ValueError and nothing is printed, and with --version only the
\* version is printed; in every case no engine is invoked and no data
\* source is read, whatever data options are present.
C18_LutPrintsAndExits0InRange ==
    LutRun =>
        /\ calls = <<>> /\ opened = {} /\ consumed = <<>>
        /\ main_pc \in {"start", "params", "print_LUT", "done"}
        /\ (main_pc = "done" /\ ~args.version /\ 1 <= W /\ W <= 64)
            => (status = "exit 0" /\ TablePrinted)
        /\ (main_pc = "done" /\ ~args.version /\ ~(1 <= W /\ W <= 64))
            => (status = "ValueError" /\ stdout = <<>>)
        /\ (main_pc = "done" /\ args.version)
            => (status = "exit 0" /\ stdout = <<print_version>>)

\* C18 witness: the table was printed and the process exited with status 0
\* although a file, a hex string, a string and standard input hold data
C18_Witness ==
    /\ LutRun /\ main_pc = "done" /\ status = "exit 0" /\ TablePrinted
    /\ args.input # None /\ args.hex # None /\ args.str # None
    /\ chunks # <<>> /\ W = 12

\* a run on an input file
FileRun == CrcRun /\ args.input # None

\* skip as C19 resolves it for the file of the run
SkipOf ==
    LET s == any_int(args.skip)
    IN  IF s < 0 THEN (IF Len(mm) + s > 0 THEN Len(mm) + s ELSE 0) ELSE s

\* count as C19 resolves it: for c <= 0 the length minus |c|
CountOf ==
    LET c == any_int(args.count)
    IN  IF c <= 0 THEN Len(mm) - (IF c < 0 THEN 0 - c ELSE c) ELSE c

\* min(L, skip + count)
EndOf == IF SkipOf + CountOf < Len(mm) THEN SkipOf + CountOf ELSE Len(mm)

\* the bytes of the file at the offsets [SkipOf, EndOf)
RangeOf ==
    IF EndOf - SkipOf <= 0 THEN <<>>
    ELSE [j \in 1..(EndOf - SkipOf) |-> mm[SkipOf + j]]

\* C19: for a file of length L a negative skip s becomes max(0, L + s), a
\* non-negative one is used as is; a count c <= 0 becomes L - |c| and must
\* then be > 0 or the CLI fails, a positive one is used as is; the bytes
\* fed to the engine are those at the offsets [skip, min(L, skip + count)).
C19_SkipCount ==
    (FileRun /\ main_pc = "done") =>
        /\ CountOf <= 0 => (status # "exit 0" /\ calls = <<>>)
        /\ CountOf > 0 => FedBytes = RangeOf
        /\ (CountOf > 0 /\ Len(mm) > 0)
            => /\ status = "exit 0" /\ Len(calls) = 1
               /\ skip = SkipOf /\ count = CountOf
        /\ Len(mm) > 0 => skip = SkipOf

\* C19 witness: skip -2 and count -1 on a file of 3 bytes feed the byte at
\* offset 1
C19_Witness ==
    /\ FileRun /\ main_pc = "done" /\ status = "exit 0"
    /\ Len(mm) = 3 /\ args.skip = Some(0 - 2) /\ args.count = Some(0 - 1)
    /\ skip = 1 /\ count = 2 /\ FedBytes = <<166, 49>>

\* C20: whenever skip and count resolve, for a file of length L, to a byte
\* range of non-positive length (no byte of the file is selected), the CLI
\* ends with a fatal error and no CRC is computed or printed.
C20_EmptyRangeFatal ==
    (FileRun /\ main_pc = "done" /\ (CountOf <= 0 \/ EndOf - SkipOf <= 0))
        => (status # "exit 0" /\ calls = <<>> /\ stdout = <<>>)

\* a step inside gen_table, reflect, reflect_u8, LUT_CRC or CRC
CoreStep ==
    \/ engineVars' # engineVars
    \/ reflectVars' # reflectVars
    \/ genVars' # genVars

\* a step inside print_LUT
PrintLutStep ==
    /\ pl_pc \in {"call", "table", "decl", "first", "loop"}
    /\ lutVars' # lutVars

\* a step of main itself
MainStep == main_pc' # main_pc \/ chunks' # chunks

C22_AccumulatorMasked ==
    /\ (fn = "CRC" /\ nbits + naug >= 1) => crc \subseteq LowMask(width)
    /\ (fn = "LUT_CRC" /\ k >= 1) => crc \subseteq LowMask(width)

\* C22 witness: LUT_CRC has consumed a byte with a polynomial and an xor_in
\* that both have bits at or above position width
C22_Witness ==
    /\ fn = "LUT_CRC" /\ pc = "loop" /\ k = 1 /\ width = 8
    /\ ~(poly \subseteq LowMask(width)) /\ ~(xor_in \subseteq LowMask(width))
    /\ crc # Zero /\ crc \subseteq LowMask(width)

\* C23: for every polynomial (also one with bits at or above position
\* width) and every width >= 1, gen_table returns exactly 256 entries and
\* every entry t satisfies 0 <= t < 2^width, although the running crc of
\* the generator is never masked between the doubling rounds.
C23_TableEntriesMasked ==
    (gt_pc = "done" /\ gt_width >= 1) =>
        /\ DOMAIN gt_table = 0..255
        /\ Cardinality(DOMAIN gt_table) = 256
        /\ \A b \in DOMAIN gt_table : gt_table[b] \subseteq LowMask(gt_width)

\* C23 witness: a finished table for a polynomial wider than the width,
\* with the running crc grown beyond the width
C23_Witness ==
    /\ gt_pc = "done" /\ gt_width = 3
    /\ ~(gt_poly \subseteq LowMask(gt_width))
    /\ ~(gt_crc \subseteq LowMask(gt_width))
    /\ gt_table[255] # Zero

\* a ^ b for bytes a and b
ByteXor == [a \in 0..255 |-> [b \in 0..255 |-> ToInt(Xor(ByteBits[a], ByteBits[b]))]]

\* C24: the doubling construction yields the per-byte CRC table: for every
\* polynomial, every width >= 1 (widths below 8 too) and every byte b,
\* gen_table(poly, width)[b] = CRC(poly, width, [b]) with xor_in = 0,
\* xor_out = 0 and no reflection; hence table[a XOR b] = table[a] XOR
\* table[b] for all bytes a, b.
C24_TableIsByteCrc ==
    (gt_pc = "done" /\ gt_width >= 1) =>
        /\ \A b \in 0..255 :
            gt_table[b] = CRC(gt_poly, gt_width, <<b>>, Zero, Zero, FALSE, FALSE)
        /\ \A a \in 0..255, b \in 0..255 :
            gt_table[ByteXor[a][b]] = Xor(gt_table[a], gt_table[b])

\* C24 witness: a finished table of a width below 8 whose entry for 0x32
\* is the non-zero CRC of that byte
C24_Witness ==
    /\ gt_pc = "done" /\ gt_width = 5 /\ gt_poly = Bits(305)
    /\ gt_table[50] # Zero
    /\ gt_table[50] = CRC(gt_poly, gt_width, <<50>>, Zero, Zero, FALSE, FALSE)

\* C25: the CLI selects the table-driven engine exactly when width >= 8 and
\* width % 8 = 0 and the bit-serial engine otherwise, so in no run (any
\* polynomial, width, data source, Koopman-inferred width included) is
\* LUT_CRC called with a width it rejects: its invalid-width failure is
\* unreachable from main.
C25_EngineSelection ==
    /\ \A j \in 1..Len(calls) :
        /\ calls[j].fn = "LUT_CRC" <=> (W >= 8 /\ W % 8 = 0)
        /\ calls[j].fn = "CRC" <=> ~(W >= 8 /\ W % 8 = 0)
        /\ calls[j].fn = "LUT_CRC" =>
            /\ ~(W < 8 \/ ToInt(And(Bits(W), Mask_07)) # 0)
            /\ LUT_CRC(P, W, calls[j].data, xi, xo, ri, ro) # ValueError
    /\ main_crc # ValueError /\ printed # ValueError
    /\ calls # <<>> => status \in {"", "exit 0"}

\* C25 witness: 0x8810 without a width gives width 16 and LUT_CRC is the
\* engine called
C25_Witness ==
    /\ main_pc = "done" /\ status = "exit 0" /\ args.width = None
    /\ W = 16 /\ Len(calls) = 1 /\ calls[1].fn = "LUT_CRC"
    /\ calls[1].data # <<>>

\* C26: both engines finalize in the same order: the value returned is
\* F XOR xor_out where F is reflect(acc, width) if reflect_out else acc and
\* acc is the final accumulator; xor_out itself is never reflected; main's
\* standard-input path applies the same order (reflect, then XOR xor_out)
\* exactly once, after the last chunk.
C26_FinalizeOrder ==
    /\ pc = "done" =>
        ret = Xor(IF reflect_out THEN reflect(crc, width) ELSE crc, xor_out)
    /\ (main_pc = "loop" /\ select_fn(W) = "LUT_CRC") =>
        main_crc = LUT_CRC(P, W, consumed, xi, Zero, ri, FALSE)
    /\ (main_pc = "loop" /\ sizes = <<>>) => main_crc = xi
    /\ (main_pc = "done" /\ "stdin" \in opened) =>
        /\ printed = Xor(IF ro THEN reflect(main_crc, W) ELSE main_crc, xo)
        /\ Len(sizes) = 1
            => printed = call_fn(select_fn(W), P, W, consumed, xi, xo, ri, ro)

\* C26 witness: an engine has returned with reflect_out and a non-zero
\* xor_out, and reflecting after the XOR would have given another value
C26_Witness ==
    /\ pc = "done" /\ reflect_out /\ xor_out # Zero /\ width = 16
    /\ data # <<>>
    /\ ret # reflect(Xor(crc, xor_out), width)
    /\ ret = Xor(reflect(crc, width), xor_out)

\* C27: on empty input both engines are defined but differ in how xor_in
\* enters: CRC returns exactly xor_out for every polynomial, width, xor_in
\* and reflect flags (the accumulator stays 0 through the augmentation),
\* while LUT_CRC returns (reflect(xor_in, width) if reflect_out else xor_in)
\* XOR xor_out.
C27_EmptyInput ==
    data = <<>> =>
        /\ fn = "CRC" => crc = Zero
        /\ (fn = "CRC" /\ pc = "done") => (ret = xor_out /\ naug = width)
        /\ (fn = "LUT_CRC" /\ pc = "done") =>
            ret = Xor(IF reflect_out THEN reflect(xor_in, width) ELSE xor_in,
                      xor_out)
        /\ (fn = "LUT_CRC" /\ ~(width < 8) /\ width % 8 = 0) => pc # "raised"

\* C27 witness: CRC has returned xor_out for empty data although xor_in is
\* not 0 and both reflections are on
C27_Witness ==
    /\ fn = "CRC" /\ pc = "done" /\ data = <<>> /\ width = 12
    /\ xor_in # Zero /\ xor_out # Zero /\ reflect_in /\ reflect_out
    /\ ret = xor_out
    /\ ret # LUT_CRC(poly, 16, data, xor_in, xor_out, reflect_in, reflect_out)

\* the values i takes at the head of gen_table's while loop
DoublingValues == {1, 2, 4, 8, 16, 32, 64, 128, 256}

\* steps CRC still has to take: 8 per byte, width augmentations, the return
CrcRank ==
    CASE pc = "call" -> 8 * Len(data) + width + 2
      [] pc = "loop" -> (8 * Len(data) - nbits) + width + 1
      [] pc = "aug"  -> left + 1
      [] OTHER       -> 0

\* steps LUT_CRC still has to take: one per byte and the return
LutRank ==
    CASE pc = "call" -> Len(data) + 2
      [] pc = "loop" -> (Len(data) - k) + 1
      [] OTHER       -> 0

\* steps gen_table still has to take: the doublings left and the return
GenRank ==
    CASE gt_pc = "call" -> 10
      [] gt_pc = "loop" -> Cardinality({p \in DoublingValues : p > gt_i}) + 1
      [] OTHER          -> 0

\* the step counts of the three computations, in every state
C28_Counts ==
    /\ fn = "CRC" =>
        /\ pc = "loop" => (nbits = 8 * k + (8 - top_bit(ByteBits[bit]) - 1)
                            /\ k < Len(data) /\ naug = 0)
        /\ pc = "aug" => (nbits = 8 * Len(data) /\ naug + left = width
                            /\ left >= 0)
        /\ pc = "done" => (nbits = 8 * Len(data) /\ naug = width)
    /\ fn = "LUT_CRC" =>
        /\ pc = "loop" => k <= Len(data)
        /\ pc = "done" => k = Len(data)
    /\ gt_pc = "loop" =>
        /\ gt_i \in DoublingValues
        /\ gt_writes[0] = 0
        /\ \A j \in 1..(TableSize - 1) :
            gt_writes[j] = IF j < gt_i THEN 1 ELSE 0
    /\ gt_pc = "done" =>
        /\ gt_i = 256
        /\ gt_writes[0] = 0
        /\ \A j \in 1..(TableSize - 1) : gt_writes[j] = 1

\* every step of a computation is the next one in order and brings the end
\* closer
C28_Steps ==
    /\ (fn = "CRC" /\ engineVars' # engineVars) => CrcRank' < CrcRank
    /\ (fn = "LUT_CRC" /\ engineVars' # engineVars) => LutRank' < LutRank
    /\ (fn = "LUT_CRC" /\ k' # k) =>
        (k' = k + 1 /\ crc' = lut_step(T, width, crc, data[k'], reflect_in))
    /\ genVars' # genVars => GenRank' < GenRank
    /\ (gt_pc = "loop" /\ gt_i' # gt_i) => gt_i' = 2 * gt_i

\* C28: every core computation terminates on finite input: for n bytes and
\* width w >= 1 CRC performs exactly 8n input-bit steps followed by exactly
\* w augmentation steps, LUT_CRC performs exactly n table-lookup steps
\* consuming the bytes in order once each, and gen_table performs exactly 8
\* doubling rounds (i = 1, 2, 4, ..., 128) that write each index 1..255
\* exactly once and never rewrite index 0.
C28_StepCounts == []C28_Counts /\ [][C28_Steps]_vars

\* C28 witness: CRC has finished two bytes at width 12 after 16 input bits
\* and 12 augmentations
C28_Witness ==
    /\ fn = "CRC" /\ pc = "done" /\ Len(data) = MaxLen /\ width = 12
    /\ nbits = 8 * MaxLen /\ naug = 12

====
